---- MODULE Spec2Model ----
(***************************************************************************)
(* Model of src/server.js: the e-mail OTP registration and login service.  *)
(*                                                                         *)
(* State: the two JSON files (users.json, otps.json), the wall clock read  *)
(* by Date.now(), the start-up configuration (JWT_SECRET, transporter,     *)
(* NODE_ENV), the send-otp requests suspended at `await sendMail`, and     *)
(* the last HTTP response written.                                         *)
(*                                                                         *)
(* Node runs one handler at a time: verify-otp, login and GET /me contain  *)
(* no await and are one atomic step each; send-otp has one await (line     *)
(* 139), after the ledger was written, and is two steps when the mail is   *)
(* attempted.                                                              *)
(*                                                                         *)
(* A string is a sequence of one-character strings, so that toLowerCase    *)
(* and trim are computed, not assumed.                                     *)
(*                                                                         *)
(* Both files are taken to be readable and writable (readJSON's catch and  *)
(* a throwing writeFileSync are not modelled).  The transporter is taken   *)
(* to exist or not as lines 94-108 leave it; whether the call of line 96   *)
(* can return one is the nodemailer package's matter.  What is said below  *)
(* of a mail being attempted is said of a process that has a transporter.  *)
(***************************************************************************)
EXTENDS Integers, Sequences, FiniteSets, Bags, TLC

(***************************************************************************)
(* Bounds of the model.                                                    *)
(***************************************************************************)
\* how many times the clock advances in a run
MaxTicks == 2
\* how many of the 900000 codes Math.random() can draw are drawn
NumCodes == 2
\* how many of the 36^5 profile ids Math.random() can draw are drawn
NumProfileIds == 2
\* how many send-otp requests may be suspended at sendMail at once
MaxInFlight == 1
\* the same, where the suspended requests are what is looked at
MaxMailInFlight == 2

(***************************************************************************)
(* Program constants.                                                      *)
(***************************************************************************)
\* line 129: 5 * 60 * 1000 ms
OTP_TTL == 5 * 60 * 1000
\* line 125: the smallest value of Math.floor(100000 + Math.random() * 900000)
MinOtp == 100000
\* line 125: the largest such value
MaxOtp == 999999
\* lines 215 and 239: expiresIn: "7d", in the seconds a token counts in
TOKEN_TTL == 7 * 24 * 60 * 60

(***************************************************************************)
(* Request inputs.                                                         *)
(***************************************************************************)
\* e-mail strings the clients of one mailbox send: the address, a spelling
\* of it in upper case with a trailing blank, and "" (<<>>; an absent field
\* is falsy too)
RawEmails == { <<"a">>, <<"A", " ">>, <<>> }
\* e-mail strings the clients of two mailboxes send
TwoRawEmails == { <<"a">>, <<"b">>, <<>> }
\* e-mail strings of one mailbox, where tokens are what is looked at
AuthRawEmails == { <<"a">>, <<>> }
\* e-mail strings of one mailbox, where mails are what is looked at
MailRawEmails == { <<"a">>, <<>> }
\* display names a client registers with
Names == { "X" }
\* passwords a client registers with
Passwords == { "p" }
\* passwords a client logs in with
LoginPasswords == { "p", "q" }
\* the numbers line 125 draws, cut to the first NumCodes
OtpNumbers == { n \in MinOtp .. MaxOtp : n < MinOtp + NumCodes }
\* the profile ids line 69 can build, cut to NumProfileIds
ProfileIds == { <<"BGMI-", k>> : k \in 1 .. NumProfileIds }
\* how far the clock moves at its odd and at its even advances: the
\* instants 0, OTP_TTL - 1, OTP_TTL, 2 * OTP_TTL - 1, ... lie on either
\* side of an expiry
TickSteps == << OTP_TTL - 1, 1 >>
\* how far the clock moves when a client comes back a week later
WeekStep == TOKEN_TTL * 1000

(***************************************************************************)
(* String helpers: String.prototype.toLowerCase and .trim (line 122).      *)
(***************************************************************************)
toLowerCaseChar(c) == IF c = "A" THEN "a" ELSE IF c = "B" THEN "b" ELSE c

toLowerCase(s) == [ i \in 1 .. Len(s) |-> toLowerCaseChar(s[i]) ]

RECURSIVE trimStart(_)
trimStart(s) ==
    IF s # <<>> /\ Head(s) = " " THEN trimStart(Tail(s)) ELSE s

RECURSIVE trimEnd(_)
trimEnd(s) ==
    IF s # <<>> /\ s[Len(s)] = " "
    THEN trimEnd(SubSeq(s, 1, Len(s) - 1))
    ELSE s

trim(s) == trimEnd(trimStart(s))

\* line 122: req.body.email?.toLowerCase().trim()
NormalizeEmail(raw) == trim(toLowerCase(raw))

\* the e-mails the ledger can hold when the clients send `raws`
Emails(raws) == { NormalizeEmail(e) : e \in raws } \ { <<>> }

\* line 125: (...).toString()
OtpString(n) == ToString(n)

OtpStrings == { OtpString(n) : n \in OtpNumbers }
\* codes a client sends; "" is an absent or empty field
RawCodes == OtpStrings \cup { "" }

(***************************************************************************)
(* State.                                                                  *)
(***************************************************************************)
VARIABLES
    users,        \* users.json: the array of accounts
    otps,         \* otps.json: the array of OTP records
    now,          \* what Date.now() returns
    ticks,        \* how many times the clock has advanced
    JWT_SECRET,   \* line 12: TRUE when process.env.JWT_SECRET is set
    transporter,  \* lines 94-108: TRUE when a mail transporter exists
    NODE_ENV,     \* process.env.NODE_ENV
    inFlight,     \* bag of send-otp requests suspended at line 139, each
                  \* by its e-mail, its code and a number
    history,      \* per observed e-mail, its last two events (history)
    issuedAt,     \* per observed e-mail, when its last code was issued
    last          \* the last response written, with the request it answers

vars ==
    << users, otps, now, ticks, JWT_SECRET, transporter, NODE_ENV,
       inFlight, history, issuedAt, last >>

config == << JWT_SECRET, transporter, NODE_ENV >>

\* a response: the request (op, email, password, code), the HTTP
\* status and error text, and the body's otp, user and token fields
\* (<<>> when the body has no such field); the email is the handler's
\* `email`: normalized in send-otp (line 122), as sent in the others.
\* Further: how the mail of a send-otp ended (outcome), how many times its
\* handler called res.json (responses), the Authorization header of a
\* GET /me (auth) and the req.userId its middleware set (-1 when unset)
Response(op, email, password, code, status, error, otp, user, token) ==
    [ op |-> op, email |-> email, password |-> password,
      code |-> code, status |-> status, error |-> error,
      otp |-> otp, user |-> user, token |-> token,
      outcome |-> "", responses |-> 1, auth |-> <<>>, userId |-> -1 ]

NoResponse == Response("none", <<>>, "", "", 0, "", <<>>, <<>>, <<>>)

(***************************************************************************)
(* OTP ledger (otps.json).                                                 *)
(***************************************************************************)
\* line 128: readJSON(OTP_FILE).filter((o) => o.email !== email)
OtpsWithout(os, email) == SelectSeq(os, LAMBDA o : o.email # email)

\* a send-otp that forgets the filter of line 128
IssueOtpKeepingOld(os, email, otp, t) ==
    Append(os, [ email |-> email, otp |-> otp, expires |-> t + OTP_TTL ])

\* a send-otp that has not written the ledger when it attempts the mail
IssueOtpLater(os, email, otp, t) == os

\* lines 128-129: drop the e-mail's records, push the new one
IssueOtp(os, email, otp, t) ==
    Append(OtpsWithout(os, email),
           [ email |-> email, otp |-> otp, expires |-> t + OTP_TTL ])

\* a verify-otp that accepts a record at the instant it expires
OtpMatchesAtExpiry(o, email, code, t) ==
    o.email = email /\ o.otp = code /\ o.expires >= t

\* a verify-otp that does not compare the code
OtpMatchesAnyCode(o, email, code, t) ==
    o.email = email /\ o.expires > t

\* lines 193: o.email === email && o.otp === code && o.expires > Date.now()
OtpMatches(o, email, code, t) ==
    o.email = email /\ o.otp = code /\ o.expires > t

\* lines 192-195: otps.find(...) found a record
HasOtpRecord(os, email, code, t) ==
    \E i \in 1 .. Len(os) : OtpMatches(os[i], email, code, t)

\* a verify-otp that leaves the ledger as it was
OtpsKept(os, email) == os

\* a verify-otp that drops the e-mail's record when the code is refused
OtpsBurnt(os, email) == OtpsWithout(os, email)

\* lines 195-196: the code is refused and the handler returns; no
\* writeJSON has run, otps.json is what line 191 read
OtpsRefused(os, email) == os

\* line 213: otps.filter((o) => o.email !== email)
ConsumeOtp(os, email) == OtpsWithout(os, email)

(***************************************************************************)
(* Accounts (users.json).                                                  *)
(***************************************************************************)
\* a verify-otp without the duplicate check
UserNeverExists(us, email) == FALSE

\* a duplicate check that compares the wrong field
UserExistsByProfileId(us, email) ==
    \E i \in 1 .. Len(us) : us[i].profile_id = email

\* line 199: users.find((u) => u.email === email)
UserExists(us, email) == \E i \in 1 .. Len(us) : us[i].email = email

\* a generator without the retry loop
generateBGMIIdOnce(us) == ProfileIds

\* lines 61-72: the ids the do-while loop can return: any id the draw can
\* build that no user has
generateUniqueBGMIId(us) ==
    { id \in ProfileIds : ~ \E i \in 1 .. Len(us) : us[i].profile_id = id }

\* lines 202-209
NewUser(name, email, password, profile_id, t) ==
    [ id |-> t, profile_id |-> profile_id, name |-> name, email |-> email,
      password_plain |-> password, created_at |-> t ]

\* jwt.sign({ id }, key, { expiresIn: "7d" }): the payload carries the id,
\* the second of signing and the second of expiry; the signature is stood
\* for by the key it was made with
SignWith(key, id, t) ==
    [ id |-> id, iat |-> t \div 1000, exp |-> (t \div 1000) + TOKEN_TTL,
      key |-> key ]

\* lines 215 and 239: jwt.sign({ id }, JWT_SECRET, { expiresIn: "7d" })
SignToken(id, t) == SignWith("JWT_SECRET", id, t)

\* lines 233-235: users.find(...) returns the first match
RECURSIVE FindLogin(_, _, _)
FindLogin(us, email, password) ==
    IF us = <<>> THEN <<>>
    ELSE IF Head(us).email = email /\ Head(us).password_plain = password
         THEN << Head(us) >>
         ELSE FindLogin(Tail(us), email, password)

(***************************************************************************)
(* Initial state: both files hold "[]" (lines 34-40); the environment is   *)
(* any.  `observed` are the e-mails whose history is recorded.             *)
(***************************************************************************)
InitWith(observed) ==
    /\ users = <<>>
    /\ otps = <<>>
    /\ now = 0
    /\ ticks = 0
    /\ JWT_SECRET \in BOOLEAN
    /\ transporter \in BOOLEAN
    /\ NODE_ENV \in { "production", "development" }
    /\ inFlight = EmptyBag
    /\ history = [ e \in observed |-> <<>> ]
    /\ issuedAt = [ e \in observed |-> -1 ]
    /\ last = NoResponse

Init == InitWith(Emails(RawEmails))

(***************************************************************************)
(* The clock.                                                              *)
(***************************************************************************)
Tick ==
    /\ ticks < MaxTicks
    /\ now' = now + TickSteps[(ticks % 2) + 1]
    /\ ticks' = ticks + 1
    /\ UNCHANGED << users, otps, config, inFlight, history, issuedAt, last >>

\* the clock a week on: a client comes back with the token it was given
TickWeek ==
    /\ ticks < MaxTicks
    /\ now' = now + WeekStep
    /\ ticks' = ticks + 1
    /\ UNCHANGED << users, otps, config, inFlight, history, issuedAt, last >>

(***************************************************************************)
(* POST /auth/send-otp (lines 120-180).                                    *)
(***************************************************************************)
\* an observed e-mail's last two events, oldest first; an event is the
\* code of an issuance (line 125) or "verified" for a verify-otp answered
\* with success (line 218)
Remember(h, email, event) ==
    IF email \in DOMAIN h
    THEN [ h EXCEPT ![email] =
            IF Len(@) < 2 THEN Append(@, event) ELSE << @[2], event >> ]
    ELSE h

\* the instant of an observed e-mail's last issuance (line 129's Date.now())
Stamp(at, email, t) ==
    IF email \in DOMAIN at THEN [ at EXCEPT ![email] = t ] ELSE at

\* a handler that answers a delivered mail without the `return` of line 157
\* and runs on into line 170
SendOtpBodiesNoReturn(otp, outcome) ==
    IF outcome = "Delivered" THEN << <<>>, << otp >> >> ELSE << << otp >> >>

\* a handler that discloses the code whatever became of the mail
SendOtpBodiesDisclosing(otp, outcome) == << << otp >> >>

\* lines 155-174: the res.json calls of the handler once it is known what
\* became of the mail, in order, each by the otp field of its body: line
\* 157 answers without the code and returns; otherwise line 170 answers
\* with it
SendOtpBodies(otp, outcome) ==
    IF outcome = "Delivered" THEN << <<>> >> ELSE << << otp >> >>

\* the response of a send-otp whose e-mail was accepted: what the client
\* receives is the first res.json
SendOtpResponse(email, otp, outcome) ==
    LET bodies == SendOtpBodies(otp, outcome)
    IN  [ Response("send-otp", email, "", "", 200, "", bodies[1], <<>>, <<>>)
            EXCEPT !.outcome = outcome, !.responses = Len(bodies) ]

\* line 123: no e-mail left after normalizing
SendOtpNoEmail(raw) ==
    /\ NormalizeEmail(raw) = <<>>
    /\ last' = Response("send-otp", <<>>, "", "", 400, "Email required",
                        <<>>, <<>>, <<>>)
    /\ UNCHANGED << users, otps, now, ticks, config, inFlight, history,
                   issuedAt >>

\* lines 125-130, then lines 164-174: no mail is attempted, the code is
\* disclosed in the response
SendOtpSkipped(raw, n) ==
    LET email == NormalizeEmail(raw)
        otp == OtpString(n)
    IN  /\ email # <<>>
        /\ ~ (transporter /\ NODE_ENV # "production")
        /\ otps' = IssueOtp(otps, email, otp, now)
        /\ history' = Remember(history, email, otp)
        /\ issuedAt' = Stamp(issuedAt, email, now)
        /\ last' = SendOtpResponse(email, otp, "Skipped")
        /\ UNCHANGED << users, now, ticks, config, inFlight >>

\* the requests suspended at line 139 with the same e-mail and code are
\* told apart by a number: the smallest one that none of them bears
FreeReq(b, email, otp) ==
    LET taken == { r.req : r \in { x \in BagToSet(b) :
                                     x.email = email /\ x.otp = otp } }
    IN  CHOOSE k \in 1 .. Cardinality(taken) + 1 :
            k \notin taken /\ \A j \in 1 .. k - 1 : j \in taken

\* lines 125-139: the ledger is written, then the handler waits for
\* sendMail; req is the number the suspended request bears
SendOtpDispatch(raw, n, req) ==
    LET email == NormalizeEmail(raw)
        otp == OtpString(n)
    IN  /\ email # <<>>
        /\ transporter /\ NODE_ENV # "production"
        /\ otps' = IssueOtp(otps, email, otp, now)
        /\ history' = Remember(history, email, otp)
        /\ issuedAt' = Stamp(issuedAt, email, now)
        /\ inFlight' = inFlight (+)
                SetToBag({ [ email |-> email, otp |-> otp, req |-> req ] })
        /\ UNCHANGED << users, now, ticks, config, last >>

\* lines 155-160: sendMail resolved
SendOtpDelivered(r) ==
    /\ r \in BagToSet(inFlight)
    /\ inFlight' = inFlight (-) SetToBag({ r })
    /\ last' = SendOtpResponse(r.email, r.otp, "Delivered")
    /\ UNCHANGED << users, otps, now, ticks, config, history, issuedAt >>

\* lines 161-163, then 169-174: sendMail rejected (error or timeout)
SendOtpFailed(r) ==
    /\ r \in BagToSet(inFlight)
    /\ inFlight' = inFlight (-) SetToBag({ r })
    /\ last' = SendOtpResponse(r.email, r.otp, "Failed")
    /\ UNCHANGED << users, otps, now, ticks, config, history, issuedAt >>

(***************************************************************************)
(* POST /auth/verify-otp (lines 185-223).                                  *)
(***************************************************************************)
\* lines 188-189
VerifyMissingFields(name, email, password, code) ==
    /\ name = "" \/ email = <<>> \/ password = "" \/ code = ""
    /\ last' = Response("verify-otp", email, password, code, 400,
                        "Missing fields", <<>>, <<>>, <<>>)
    /\ UNCHANGED << users, otps, now, ticks, config, inFlight, history,
                   issuedAt >>

\* lines 191-196
VerifyInvalidOtp(name, email, password, code) ==
    /\ ~ (name = "" \/ email = <<>> \/ password = "" \/ code = "")
    /\ ~ HasOtpRecord(otps, email, code, now)
    /\ otps' = OtpsRefused(otps, email)
    /\ last' = Response("verify-otp", email, password, code, 400,
                        "Invalid or expired OTP", <<>>, <<>>, <<>>)
    /\ UNCHANGED << users, now, ticks, config, inFlight, history, issuedAt >>

\* lines 198-200
VerifyUserExists(name, email, password, code) ==
    /\ ~ (name = "" \/ email = <<>> \/ password = "" \/ code = "")
    /\ HasOtpRecord(otps, email, code, now)
    /\ UserExists(users, email)
    /\ last' = Response("verify-otp", email, password, code, 400,
                        "User already exists", <<>>, <<>>, <<>>)
    /\ UNCHANGED << users, otps, now, ticks, config, inFlight, history,
                   issuedAt >>

\* lines 202-222: the account and the ledger are written, then the token is
\* signed; jwt.sign throws without a secret and line 221 answers 500
VerifyRegister(name, email, password, code) ==
    /\ ~ (name = "" \/ email = <<>> \/ password = "" \/ code = "")
    /\ HasOtpRecord(otps, email, code, now)
    /\ ~ UserExists(users, email)
    /\ \E pid \in generateUniqueBGMIId(users) :
        LET user == NewUser(name, email, password, pid, now)
        IN  /\ users' = Append(users, user)
            /\ otps' = ConsumeOtp(otps, email)
            /\ last' =
                IF JWT_SECRET
                THEN Response("verify-otp", email, password, code, 200,
                              "", <<>>, << user >>,
                              << SignToken(user.id, now) >>)
                ELSE Response("verify-otp", email, password, code, 500,
                              "Verification failed", <<>>, <<>>, <<>>)
    /\ history' =
        IF JWT_SECRET THEN Remember(history, email, "verified") ELSE history
    /\ UNCHANGED << now, ticks, config, inFlight, issuedAt >>

(***************************************************************************)
(* POST /auth/login (lines 228-244).                                       *)
(***************************************************************************)
\* lines 233-237
LoginInvalid(email, password) ==
    /\ FindLogin(users, email, password) = <<>>
    /\ last' = Response("login", email, password, "", 401,
                        "Invalid credentials", <<>>, <<>>, <<>>)
    /\ UNCHANGED << users, otps, now, ticks, config, inFlight, history,
                   issuedAt >>

\* lines 239-243
LoginFound(email, password) ==
    /\ FindLogin(users, email, password) # <<>>
    /\ LET user == FindLogin(users, email, password)[1]
       IN  last' =
            IF JWT_SECRET
            THEN Response("login", email, password, "", 200, "",
                          <<>>, << user >>, << SignToken(user.id, now) >>)
            ELSE Response("login", email, password, "", 500,
                          "Login failed", <<>>, <<>>, <<>>)
    /\ UNCHANGED << users, otps, now, ticks, config, inFlight, history,
                   issuedAt >>

(***************************************************************************)
(* authMiddleware (lines 77-89) and GET /me (lines 249-264).               *)
(*                                                                         *)
(* An Authorization header is the sequence of the words that               *)
(* auth.split(" ") yields: <<>> is an absent (or empty) header,            *)
(* << "Bearer", token >> the usual one, << token >> a token sent without   *)
(* a scheme.                                                               *)
(***************************************************************************)
\* a jwt.verify that does not look at the expiry
jwtVerifyForever(token, secret, t) ==
    secret /\ token.key = "JWT_SECRET"

\* line 83: jwt.verify(token, JWT_SECRET) returns the payload instead of
\* throwing: a secret is set, the signature was made with it, and the
\* second of expiry has not been reached
jwtVerify(token, secret, t) ==
    secret /\ token.key = "JWT_SECRET" /\ t \div 1000 < token.exp

\* a middleware that reads the wrong field of the payload
DecodedIat(decoded) == decoded.iat

\* line 84: req.userId = decoded.id
DecodedId(decoded) == decoded.id

\* lines 78-88: what the middleware answers ("" when it calls next()) and
\* the req.userId it sets; line 82: the token is the second word
authMiddleware(auth, secret, t) ==
    IF auth = <<>>
    THEN [ status |-> 401, error |-> "No token", userId |-> -1 ]
    ELSE IF Len(auth) < 2 \/ ~ jwtVerify(auth[2], secret, t)
    THEN [ status |-> 401, error |-> "Invalid token", userId |-> -1 ]
    ELSE [ status |-> 200, error |-> "", userId |-> DecodedId(auth[2]) ]

\* line 252: users.find((u) => u.id === req.userId) returns the first match
RECURSIVE FindById(_, _)
FindById(us, id) ==
    IF us = <<>> THEN <<>>
    ELSE IF Head(us).id = id THEN << Head(us) >>
         ELSE FindById(Tail(us), id)

\* lines 255-260: the fields of the profile
Profile(user) ==
    [ profile_id |-> user.profile_id, name |-> user.name,
      email |-> user.email, created_at |-> user.created_at ]

\* the response of a GET /me
MeResponse(auth, answer, user) ==
    [ Response("me", <<>>, "", "", answer.status, answer.error,
               <<>>, user, <<>>)
        EXCEPT !.auth = auth, !.userId = answer.userId ]

\* the tokens a client holds: the one of the last response, or the one it
\* presented last
HeldTokens ==
    { last.token[i] : i \in 1 .. Len(last.token) }
        \cup (IF Len(last.auth) = 2 THEN { last.auth[2] } ELSE {})

\* tokens made without the service: the payload of a held token, or one
\* for the id 0, signed with a key of the client's own
ForgedTokens ==
    { [ tk EXCEPT !.key = "other" ] : tk \in HeldTokens }
        \cup { SignWith("other", 0, now) }

\* the headers a client sends
Headers ==
    { <<>> } \cup { << "Bearer", tk >> : tk \in HeldTokens \cup ForgedTokens }
             \cup { << tk >> : tk \in HeldTokens }

\* lines 78-79: no header, the handler is not run
MeNoToken(auth) ==
    /\ auth = <<>>
    /\ last' = MeResponse(auth, authMiddleware(auth, JWT_SECRET, now), <<>>)
    /\ UNCHANGED << users, otps, now, ticks, config, inFlight, history,
                   issuedAt >>

\* lines 81-88: jwt.verify (or reading the second word) threw, the handler
\* is not run
MeInvalidToken(auth) ==
    /\ auth # <<>>
    /\ authMiddleware(auth, JWT_SECRET, now).status = 401
    /\ last' = MeResponse(auth, authMiddleware(auth, JWT_SECRET, now), <<>>)
    /\ UNCHANGED << users, otps, now, ticks, config, inFlight, history,
                   issuedAt >>

\* lines 250-260: the middleware called next(); the handler answers with
\* the profile of the account, or 404 when no account has the id
MeHandler(auth) ==
    LET answer == authMiddleware(auth, JWT_SECRET, now)
        found == FindById(users, answer.userId)
    IN  /\ auth # <<>>
        /\ answer.status = 200
        /\ last' =
            IF found = <<>>
            THEN MeResponse(auth, [ answer EXCEPT !.status = 404,
                                      !.error = "User not found" ], <<>>)
            ELSE MeResponse(auth, answer, << Profile(found[1]) >>)
        /\ UNCHANGED << users, otps, now, ticks, config, inFlight, history,
                       issuedAt >>

(***************************************************************************)
(* The service: the clock, and the requests of clients that send the       *)
(* e-mail strings `raws`.                                                  *)
(***************************************************************************)
\* send-otp where no mail is attempted
SendOtpRequests(raws) ==
    \/ \E raw \in raws : SendOtpNoEmail(raw)
    \/ \E raw \in raws, n \in OtpNumbers : SendOtpSkipped(raw, n)

\* send-otp where the mail is attempted, at most `cap` requests suspended
\* at a time; suspended requests of one e-mail and code are not told apart
MailRequests(raws, cap) ==
    \/ /\ BagCardinality(inFlight) < cap
       /\ \E raw \in raws, n \in OtpNumbers : SendOtpDispatch(raw, n, 1)
    \/ \E r \in BagToSet(inFlight) : SendOtpDelivered(r)
    \/ \E r \in BagToSet(inFlight) : SendOtpFailed(r)

\* the same, every suspended request told apart from the others
MailRequestsApart(raws, cap) ==
    \/ /\ BagCardinality(inFlight) < cap
       /\ \E raw \in raws, n \in OtpNumbers :
            SendOtpDispatch(raw, n,
                FreeReq(inFlight, NormalizeEmail(raw), OtpString(n)))
    \/ \E r \in BagToSet(inFlight) : SendOtpDelivered(r)
    \/ \E r \in BagToSet(inFlight) : SendOtpFailed(r)

VerifyRequests(raws) ==
    \/ \E name \in Names, email \in raws, password \in Passwords,
          code \in RawCodes : VerifyMissingFields(name, email, password, code)
    \/ \E name \in Names, email \in raws, password \in Passwords,
          code \in RawCodes : VerifyInvalidOtp(name, email, password, code)
    \/ \E name \in Names, email \in raws, password \in Passwords,
          code \in RawCodes : VerifyUserExists(name, email, password, code)
    \/ \E name \in Names, email \in raws, password \in Passwords,
          code \in RawCodes : VerifyRegister(name, email, password, code)

LoginRequests(raws) ==
    \/ \E email \in raws, password \in LoginPasswords :
          LoginInvalid(email, password)
    \/ \E email \in raws, password \in LoginPasswords :
          LoginFound(email, password)

Next ==
    \/ Tick
    \/ SendOtpRequests(RawEmails)
    \/ MailRequests(RawEmails, MaxInFlight)
    \/ VerifyRequests(RawEmails)
    \/ LoginRequests(RawEmails)

\* one mailbox in several spellings, its history observed, any environment
Spec == Init /\ [][Next]_vars

InitAccounts ==
    /\ InitWith({})
    /\ JWT_SECRET
    /\ ~ transporter
    /\ NODE_ENV = "production"

NextAccounts ==
    \/ Tick
    \/ SendOtpRequests(TwoRawEmails)
    \/ VerifyRequests(TwoRawEmails)
    \/ LoginRequests(TwoRawEmails)

\* two mailboxes, no history observed, a deployment without mail transport
SpecAccounts == InitAccounts /\ [][NextAccounts]_vars

MeRequests ==
    \/ \E auth \in Headers : MeNoToken(auth)
    \/ \E auth \in Headers : MeInvalidToken(auth)
    \/ \E auth \in Headers : MeHandler(auth)

InitAuth ==
    /\ InitWith({})
    /\ ~ transporter
    /\ NODE_ENV = "production"

NextAuth ==
    \/ Tick
    \/ TickWeek
    \/ SendOtpRequests(AuthRawEmails)
    \/ VerifyRequests(AuthRawEmails)
    \/ LoginRequests(AuthRawEmails)
    \/ MeRequests

\* one mailbox, its clients presenting tokens to GET /me, weeks passing; a
\* deployment without mail transport, with or without a secret
SpecAuth == InitAuth /\ [][NextAuth]_vars

InitMail ==
    /\ InitWith({})
    /\ JWT_SECRET
    /\ transporter
    /\ NODE_ENV = "development"

NextMail ==
    \/ Tick
    \/ \E raw \in MailRawEmails : SendOtpNoEmail(raw)
    \/ MailRequestsApart(MailRawEmails, MaxMailInFlight)
    \/ VerifyRequests(MailRawEmails)

\* the clock and the send-otp requests alone
NextSend ==
    \/ Tick
    \/ \E raw \in MailRawEmails : SendOtpNoEmail(raw)
    \/ MailRequestsApart(MailRawEmails, MaxMailInFlight)

\* one mailbox, a deployment in which every send-otp attempts a mail and
\* several may wait for theirs at once
SpecMail == InitMail /\ [][NextMail]_vars

\* the records a suspended send-otp can be
InFlightRecords ==
    { [ email |-> e, otp |-> c, req |-> k ] :
        e \in Emails(MailRawEmails), c \in OtpStrings,
        k \in 1 .. MaxMailInFlight }

\* sendMail settles: it resolves, or it rejects, at the latest when one of
\* the transporter's timeouts (lines 105-106, and the socket timeout
\* nodemailer adds) runs out
SpecMailFair ==
    /\ InitMail
    /\ [][NextSend]_vars
    /\ \A r \in InFlightRecords :
          WF_vars(SendOtpDelivered(r) \/ SendOtpFailed(r))

(***************************************************************************)
(* Vocabulary of the properties.                                           *)
(***************************************************************************)
\* this step is a verify-otp request being answered (the clock and the
\* suspended requests stand still, the response is verify-otp's)
VerifyAnswered ==
    last'.op = "verify-otp" /\ now' = now /\ inFlight' = inFlight

\* this step is a login request being answered
LoginAnswered ==
    last'.op = "login" /\ now' = now /\ inFlight' = inFlight

InvalidOrExpiredOTP(r) ==
    r.status = 400 /\ r.error = "Invalid or expired OTP"

UserExistsError(r) ==
    r.status = 400 /\ r.error = "User already exists"

InvalidCredentials(r) ==
    r.status = 401 /\ r.error = "Invalid credentials"

\* the code of the most recent issuance in a history ("" when none)
LastIssued(h) ==
    IF h = <<>> THEN ""
    ELSE IF h[Len(h)] # "verified" THEN h[Len(h)]
    ELSE IF Len(h) = 2 THEN h[1] ELSE ""

\* the history ends in two issuances with no verification between them
TwoIssuances(h) ==
    Len(h) = 2 /\ h[1] # "verified" /\ h[2] # "verified"

\* the ledger holds an unexpired record of this e-mail and code
LiveRecord(os, email, code, t) ==
    \E k \in 1 .. Len(os) :
        os[k].email = email /\ os[k].otp = code /\ os[k].expires > t

\* the ledger holds a record of this e-mail and code, expired or not
AnyRecord(os, email, code) ==
    \E k \in 1 .. Len(os) : os[k].email = email /\ os[k].otp = code

\* the store holds an account under this e-mail
HasAccount(us, email) == \E i \in 1 .. Len(us) : us[i].email = email

(***************************************************************************)
(* C1.  An OTP verifies at most once: once a verify-otp for an e-mail has  *)
(* succeeded with a code, a later verify-otp for that e-mail with the same *)
(* code, no send-otp for the e-mail in between, is answered "Invalid or    *)
(* expired OTP".                                                           *)
(***************************************************************************)
C1_VerifiesAtMostOnce ==
    [][ \A e \in DOMAIN history :
          ( /\ VerifyAnswered
            /\ NormalizeEmail(last'.email) = e
            /\ Len(history[e]) = 2
            /\ history[e][2] = "verified"
            /\ last'.code = history[e][1] )
          => InvalidOrExpiredOTP(last') ]_vars

\* a repeat of a consumed code was refused
C1_Witness ==
    \E e \in DOMAIN history :
        /\ Len(history[e]) = 2
        /\ history[e][2] = "verified"
        /\ last.op = "verify-otp"
        /\ last.email = e
        /\ last.code = history[e][1]
        /\ InvalidOrExpiredOTP(last)

(***************************************************************************)
(* C2.  As claimed: after two send-otp in sequence for an e-mail, a        *)
(* verify-otp for it presenting the code of the first issuance is answered *)
(* "Invalid or expired OTP".                                               *)
(***************************************************************************)
C2_FirstCodeNeverVerifies ==
    [][ \A e \in DOMAIN history :
          ( /\ VerifyAnswered
            /\ last'.email = e
            /\ TwoIssuances(history[e])
            /\ last'.code = history[e][1] )
          => InvalidOrExpiredOTP(last') ]_vars

(***************************************************************************)
(* C2, amended.  After two send-otp in sequence for an e-mail, a           *)
(* verify-otp for it presenting the code of the first issuance is answered *)
(* "Invalid or expired OTP", unless the second issuance drew the same code *)
(* as the first.                                                           *)
(***************************************************************************)
C2_SupersededCodeNeverVerifies ==
    [][ \A e \in DOMAIN history :
          ( /\ VerifyAnswered
            /\ last'.email = e
            /\ TwoIssuances(history[e])
            /\ history[e][1] # history[e][2]
            /\ last'.code = history[e][1] )
          => InvalidOrExpiredOTP(last') ]_vars

\* the first code was refused while the second was still live
C2_Witness ==
    \E e \in DOMAIN history :
        /\ TwoIssuances(history[e])
        /\ history[e][1] # history[e][2]
        /\ LiveRecord(otps, e, history[e][2], now)
        /\ last.op = "verify-otp"
        /\ last.email = e
        /\ last.code = history[e][1]
        /\ InvalidOrExpiredOTP(last)

(***************************************************************************)
(* C3.  An OTP never verifies once its five minutes have passed: a         *)
(* verify-otp presenting the code last issued for the e-mail, at or after  *)
(* the issue time plus 5 minutes, is answered "Invalid or expired OTP" and *)
(* adds no account.                                                        *)
(***************************************************************************)
C3_ExpiredNeverVerifies ==
    [][ \A e \in DOMAIN issuedAt :
          ( /\ VerifyAnswered
            /\ last'.email = e
            /\ issuedAt[e] >= 0
            /\ last'.code = LastIssued(history[e])
            /\ now >= issuedAt[e] + 5 * 60 * 1000 )
          => InvalidOrExpiredOTP(last') /\ users' = users ]_vars

\* the right code, still in the ledger, was refused for its age
C3_Witness ==
    \E e \in DOMAIN issuedAt :
        /\ issuedAt[e] >= 0
        /\ now >= issuedAt[e] + 5 * 60 * 1000
        /\ AnyRecord(otps, e, LastIssued(history[e]))
        /\ last.op = "verify-otp"
        /\ last.email = e
        /\ last.code = LastIssued(history[e])
        /\ InvalidOrExpiredOTP(last)
        /\ users = <<>>

(***************************************************************************)
(* C4.  The account store never holds two accounts whose e-mails are equal *)
(* after normalization, whatever requests were answered or are suspended.  *)
(***************************************************************************)
C4_OneAccountPerEmail ==
    \A i, j \in 1 .. Len(users) :
        NormalizeEmail(users[i].email) = NormalizeEmail(users[j].email)
            => i = j

\* a second registration for a registered e-mail was attempted with a live
\* code and refused
C4_Witness ==
    /\ Len(users) = 1
    /\ LiveRecord(otps, users[1].email, last.code, now)
    /\ last.op = "verify-otp"
    /\ NormalizeEmail(last.email) = users[1].email
    /\ UserExistsError(last)

(***************************************************************************)
(* C5.  An account is added only by a verify-otp that presents the code    *)
(* most recently issued for its e-mail, while that code is in the ledger   *)
(* and less than five minutes old; the step adds that one account, under   *)
(* that e-mail, and changes no other.                                      *)
(***************************************************************************)
C5_AccountOnlyByLiveCode ==
    [][ users' # users =>
          /\ VerifyAnswered
          /\ last'.email \in DOMAIN history
          /\ last'.code # ""
          /\ last'.code = LastIssued(history[last'.email])
          /\ history[last'.email][Len(history[last'.email])] # "verified"
          /\ now < issuedAt[last'.email] + 5 * 60 * 1000
          /\ LiveRecord(otps, last'.email, last'.code, now)
          /\ Len(users') = Len(users) + 1
          /\ SubSeq(users', 1, Len(users)) = users
          /\ users'[Len(users')].email = last'.email ]_vars

\* an account was created by a successful verify-otp
C5_Witness ==
    /\ Len(users) = 1
    /\ last.op = "verify-otp"
    /\ last.status = 200
    /\ last.user = << users[1] >>
    /\ users[1].email = last.email
    /\ history[last.email] = << last.code, "verified" >>

(***************************************************************************)
(* C6.  Once an account exists for an e-mail, a verify-otp for that e-mail *)
(* presenting a live code is answered "User already exists" and the        *)
(* account store is left as it was.                                        *)
(***************************************************************************)
C6_SecondRegistrationRefused ==
    [][ ( /\ VerifyAnswered
          /\ HasAccount(users, last'.email)
          /\ LiveRecord(otps, last'.email, last'.code, now) )
        => UserExistsError(last') /\ users' = users ]_vars

\* a registered e-mail presented a fresh live code and was refused
C6_Witness ==
    /\ Len(users) = 1
    /\ last.op = "verify-otp"
    /\ last.email = users[1].email
    /\ LiveRecord(otps, last.email, last.code, now)
    /\ UserExistsError(last)

(***************************************************************************)
(* C7.  As claimed: verify-otp normalizes the e-mail before consulting the *)
(* ledger and the store: when the ledger holds a live code for an e-mail   *)
(* that has no account, a verify-otp presenting that code and any spelling *)
(* that normalizes to the e-mail succeeds and stores the account under the *)
(* normalized e-mail.                                                      *)
(***************************************************************************)
C7_VerifyNormalizesEmail ==
    [][ ( /\ VerifyAnswered
          /\ JWT_SECRET
          /\ LiveRecord(otps, NormalizeEmail(last'.email), last'.code, now)
          /\ ~ HasAccount(users, NormalizeEmail(last'.email)) )
        => /\ last'.status = 200
           /\ HasAccount(users', NormalizeEmail(last'.email)) ]_vars

(***************************************************************************)
(* C8.  As claimed: login normalizes the e-mail before the lookup: it      *)
(* succeeds with the account and a token when an account exists under the  *)
(* normalized e-mail with exactly the password sent, and is answered       *)
(* "Invalid credentials" exactly when there is none.                       *)
(***************************************************************************)
C8_LoginNormalizesEmail ==
    [][ ( LoginAnswered /\ JWT_SECRET ) =>
          IF \E i \in 1 .. Len(users) :
                /\ users[i].email = NormalizeEmail(last'.email)
                /\ users[i].password_plain = last'.password
          THEN /\ last'.status = 200
               /\ last'.token # <<>>
               /\ last'.user # <<>>
               /\ last'.user[1].email = NormalizeEmail(last'.email)
          ELSE InvalidCredentials(last') ]_vars

(***************************************************************************)
(* C9.  As claimed: no two accounts in the store share an id.              *)
(***************************************************************************)
C9_AccountIdsDistinct ==
    \A i, j \in 1 .. Len(users) : users[i].id = users[j].id => i = j

(***************************************************************************)
(* C10.  No two accounts in the store share a profile_id: the generator    *)
(* never returns an id that an existing account has.                       *)
(***************************************************************************)
C10_ProfileIdsDistinct ==
    \A i, j \in 1 .. Len(users) :
        users[i].profile_id = users[j].profile_id => i = j

\* two accounts were registered
C10_Witness ==
    /\ Len(users) = 2
    /\ users[1].profile_id # users[2].profile_id
    /\ last.op = "verify-otp"
    /\ last.status = 200

(***************************************************************************)
(* Session tokens and GET /me.                                             *)
(***************************************************************************)
\* this step is a GET /me request being answered
MeAnswered ==
    last'.op = "me" /\ now' = now /\ inFlight' = inFlight

\* the response carries a token and the account it was signed for
IssuedToken(r) ==
    r.op \in { "verify-otp", "login" } /\ r.status = 200 /\ r.token # <<>>

\* at this instant, less than seven days' seconds have gone by since the
\* second the token was signed in
WithinWindow(token, t) == t \div 1000 < token.iat + 7 * 24 * 60 * 60

\* C11: a token issued by verify-otp or login and presented to GET /me as
\* a Bearer token within its seven days is accepted, and the middleware
\* yields exactly the id of the account it was issued for
C11_TokenRoundTrip ==
    [][ ( /\ IssuedToken(last)
          /\ MeAnswered
          /\ last'.auth = << "Bearer", last.token[1] >>
          /\ WithinWindow(last.token[1], now) )
        => ( /\ last'.status = 200
             /\ last'.userId = last.user[1].id ) ]_vars

\* a token issued at an earlier instant was presented and accepted
C11_Witness ==
    /\ last.op = "me"
    /\ last.status = 200
    /\ Len(last.auth) = 2
    /\ last.auth[2].key = "JWT_SECRET"
    /\ last.auth[2].iat < now \div 1000
    /\ last.userId = last.auth[2].id
    /\ \E i \in 1 .. Len(users) : users[i].id = last.userId

\* C12: GET /me answers 401 "No token" to a request without a header and
\* 401 "Invalid token" to a token not signed by the service or presented
\* when its seven days are over; neither response carries a profile
C12_RejectsBadTokens ==
    [][ MeAnswered =>
          /\ last'.auth = <<>> =>
                /\ last'.status = 401
                /\ last'.error = "No token"
                /\ last'.user = <<>>
          /\ ( /\ Len(last'.auth) = 2
               /\ \/ last'.auth[2].key # "JWT_SECRET"
                  \/ ~ WithinWindow(last'.auth[2], now) ) =>
                /\ last'.status = 401
                /\ last'.error = "Invalid token"
                /\ last'.user = <<>> ]_vars

\* a token the service signed was refused when its seven days were over
C12_Witness ==
    /\ last.op = "me"
    /\ last.status = 401
    /\ last.error = "Invalid token"
    /\ Len(last.auth) = 2
    /\ last.auth[2].key = "JWT_SECRET"
    /\ JWT_SECRET
    /\ ~ WithinWindow(last.auth[2], now)
(***************************************************************************)
(* The send-otp response and the ledger.                                   *)
(***************************************************************************)
\* this step is a send-otp request being answered: no request is newly
\* suspended, the response is send-otp's
SendOtpAnswered ==
    /\ last'.op = "send-otp"
    /\ now' = now
    /\ users' = users
    /\ BagCardinality(inFlight') <= BagCardinality(inFlight)
    /\ inFlight' # inFlight \/ otps' # otps \/ last' # last

\* this step suspends a send-otp request at its mail
SendOtpSuspended ==
    BagCardinality(inFlight') = BagCardinality(inFlight) + 1

\* this step answers the suspended request r
Settles(r) ==
    /\ SendOtpAnswered
    /\ BagIn(r, inFlight)
    /\ inFlight' = inFlight (-) SetToBag({ r })
    /\ last'.email = r.email

\* C13: a send-otp whose mail was delivered answers success without the
\* code; one whose mail failed or was not attempted answers success with
\* exactly the code the request wrote to the ledger for its e-mail
C13_ResponsePolicy ==
    [][ (SendOtpAnswered /\ last'.status # 400) =>
          /\ last'.status = 200
          /\ last'.outcome \in { "Delivered", "Failed", "Skipped" }
          /\ last'.outcome = "Delivered" => last'.otp = <<>>
          /\ last'.outcome = "Skipped" =>
                \E k \in 1 .. Len(otps') :
                    /\ otps'[k].email = last'.email
                    /\ otps'[k].expires = now + OTP_TTL
                    /\ last'.otp = << otps'[k].otp >>
          /\ last'.outcome = "Failed" =>
                \E r \in BagToSet(inFlight) :
                    Settles(r) /\ last'.otp = << r.otp >> ]_vars

\* no mail was attempted and the response carries the code of the record
\* just written
C13_Witness ==
    /\ last.op = "send-otp"
    /\ last.outcome = "Skipped"
    /\ last.otp # <<>>
    /\ \E k \in 1 .. Len(otps) :
          /\ otps[k].email = last.email
          /\ otps[k].otp = last.otp[1]
          /\ otps[k].expires = now + OTP_TTL

C15_OneRecordPerEmail ==
    \A i, j \in 1 .. Len(otps) :
        NormalizeEmail(otps[i].email) = NormalizeEmail(otps[j].email)
            => i = j

\* an e-mail was issued two codes in a row and the ledger holds one record
\* of it
C15_Witness ==
    \E e \in DOMAIN history :
        /\ TwoIssuances(history[e])
        /\ Cardinality({ k \in 1 .. Len(otps) : otps[k].email = e }) = 1

(***************************************************************************)
(* Failed verifications.                                                   *)
(***************************************************************************)
\* C16: after a verify-otp answered "User already exists" the ledger holds
\* no record of its e-mail
C16_UserExistsConsumesOtp ==
    [][ (VerifyAnswered /\ UserExistsError(last')) =>
          \A k \in 1 .. Len(otps') : otps'[k].email # last'.email ]_vars

MissingFields(r) ==
    r.status = 400 /\ r.error = "Missing fields"

\* C17: a verify-otp answered "Missing fields" or "Invalid or expired OTP"
\* leaves the ledger and the accounts as they were, so every code that
\* was live before it is live after it
C17_FailedVerifyChangesNothing ==
    [][ ( /\ VerifyAnswered
          /\ MissingFields(last') \/ InvalidOrExpiredOTP(last') ) =>
          /\ otps' = otps
          /\ users' = users
          /\ \A k \in 1 .. Len(otps) :
                LiveRecord(otps, otps[k].email, otps[k].otp, now) =>
                    LiveRecord(otps', otps[k].email, otps[k].otp, now') ]_vars

\* a wrong code was refused while the right one is live in the ledger
C17_Witness ==
    /\ last.op = "verify-otp"
    /\ InvalidOrExpiredOTP(last)
    /\ \E k \in 1 .. Len(otps) :
          /\ otps[k].email = last.email
          /\ otps[k].otp # last.code
          /\ otps[k].expires > now

\* C19: a verify-otp answered with a failure has added no account and
\* left the ledger as it was, and an account is added only by a verify-otp
\* answered with success and a token
C19_VerifyAllOrNothing ==
    [][ /\ (VerifyAnswered /\ last'.status # 200) =>
              (users' = users /\ otps' = otps)
        /\ users' # users =>
              /\ last'.op = "verify-otp"
              /\ last'.status = 200
              /\ last'.token # <<>> ]_vars
(***************************************************************************)
(* Suspended send-otp requests.                                            *)
(***************************************************************************)
\* how many requests for this e-mail are suspended
InFlightFor(b, email) ==
    LET rs == { r \in BagToSet(b) : r.email = email }
    IN  BagCardinality([ r \in rs |-> CopiesIn(r, b) ])

====
